---- MODULE Spec2Model ----
(***************************************************************************)
(* ModelCL of peridynamics/model_cl.py as a state machine.                 *)
(*                                                                         *)
(* One host thread runs simulate; every kernel dispatch is followed by     *)
(* queue.finish() and every enqueue_copy is blocking, so each call the     *)
(* host makes is one atomic action and pc is the host's position.          *)
(*                                                                         *)
(* Spec, SpecAnyConnectivity and LiveSpec start from a constructed object; *)
(* SpecConstruct starts before __init__.  DeviceSpec splits each kernel    *)
(* method into its call and its queue.finish() and lets the device run    *)
(* the work items in any order; KernelSpec calls _break_bonds directly.    *)
(*                                                                         *)
(* Arrays are 1-indexed here (node k of the code is node k+1).  A vector   *)
(* is a triple of integers; a displacement field, a coordinate field and   *)
(* a force field are tuples of vectors, one per node.  None is <<>>.       *)
(***************************************************************************)
EXTENDS Integers, Sequences, FiniteSets

\* ------------------------------------------------------------------ bounds

\* steps ranges over 0..MaxSteps
MaxSteps == 2
\* write ranges over None and 1..MaxWrite
MaxWrite == 2
\* a test of the kernels makes at most MaxCalls calls
MaxCalls == 3
\* simulate is called at most MaxRuns times on the one ModelCL object
MaxRuns == 2

\* ----------------------------------------------------------------- vectors

None == <<>>

Abs(x) == IF x < 0 THEN -x ELSE x

VAdd(a, b) == <<a[1] + b[1], a[2] + b[2], a[3] + b[3]>>

VSub(a, b) == <<a[1] - b[1], a[2] - b[2], a[3] - b[3]>>

Dot(a, b) == a[1] * b[1] + a[2] * b[2] + a[3] * b[3]

\* Euclidean length; exact, and defined only where it is an integer (every
\* field of this model keeps the nodes on the x axis).
Norm(v) == CHOOSE n \in 0..(Abs(v[1]) + Abs(v[2]) + Abs(v[3])) : n * n = Dot(v, v)

RECURSIVE Gcd(_, _)
Gcd(a, b) == IF b = 0 THEN a ELSE Gcd(b, a % b)

\* The rational n/d (d > 0) in lowest terms, as <<numerator, denominator>>.
Rat(n, d) == LET g == Gcd(Abs(n), d) IN <<n \div g, d \div g>>

\* ------------------------------------------------- the Model being simulated
\* What Model.__init__ leaves on self: a chain of three nodes one horizon
\* apart and a fourth node out of everyone's horizon (family 0).

coords == << <<0, 0, 0>>, <<4, 0, 0>>, <<8, 0, 0>>, <<40, 0, 0>> >>

nnodes == Len(coords)

Nodes == 1..nnodes

horizon == 4

volume == [i \in Nodes |-> 1]

bond_stiffness == 8

\* critical_strain = 1/2, as <<numerator, denominator>>
critical_strain == <<1, 2>>

InHorizon(i) == {j \in Nodes : j # i /\ Norm(VSub(coords[j], coords[i])) <= horizon}

family == [i \in Nodes |-> Cardinality(InHorizon(i))]

RECURSIVE SetMax(_)
SetMax(S) == IF S = {} THEN 0
             ELSE LET x == CHOOSE y \in S : TRUE
                      m == SetMax(S \ {x})
                  IN IF x > m THEN x ELSE m

max_neighbours == SetMax({family[i] : i \in Nodes})

Cols == 1..max_neighbours

\* The members of S in increasing order.
RECURSIVE Sorted(_)
Sorted(S) == IF S = {} THEN <<>>
             ELSE LET x == CHOOSE y \in S : \A z \in S : y <= z
                  IN <<x>> \o Sorted(S \ {x})

\* A row of max_neighbours cells: the neighbours, then zero-initialised cells
\* (cell value 0 of the code is node 1 here).
PadRow(s) == [c \in Cols |-> IF c <= Len(s) THEN s[c] ELSE 1]

initial_connectivity ==
    << [i \in Nodes |-> PadRow(Sorted(InHorizon(i)))], family >>

\* ----------------------------------------------------------------- kernels

\* bond_force, work item i: the sum over the active neighbours j of
\* stiffness * stretch * (unit vector from i to j) * volume[j].
ForceTerm(r, r0, vol, stiffness, i, j) ==
    LET d  == VSub(r[j], r[i])
        l  == Norm(d)
        l0 == Norm(VSub(r0[j], r0[i]))
    IN IF l = 0 \/ l0 = 0 THEN <<0, 0, 0>>
       ELSE [c \in 1..3 |-> (stiffness * (l - l0) * d[c] * vol[j]) \div (l0 * l)]

RECURSIVE ForceSum(_, _, _, _, _, _, _)
ForceSum(r, r0, row, vol, stiffness, i, n) ==
    IF n = 0 THEN <<0, 0, 0>>
    ELSE VAdd(ForceSum(r, r0, row, vol, stiffness, i, n - 1),
              ForceTerm(r, r0, vol, stiffness, i, row[n]))

bond_force_kernel(r, r0, nl, nn, max_neigh, vol, stiffness) ==
    [i \in Nodes |-> ForceSum(r, r0, nl[i], vol, stiffness, i, nn[i])]

\* stretch (l - l0) / l0 > cs, with cs = cs[1] / cs[2]
Exceeds(r, r0, cs, i, j) ==
    LET l  == Norm(VSub(r[j], r[i]))
        l0 == Norm(VSub(r0[j], r0[i]))
    IN (l - l0) * cs[2] > cs[1] * l0

Swap(row, a, b) == [row EXCEPT ![a] = row[b], ![b] = row[a]]

\* Mutant: after a swap the scan moves on, so that the bond swapped into
\* cell k is not examined.
RECURSIVE BreakRowSkipsSwappedIn(_, _, _, _, _, _, _)
BreakRowSkipsSwappedIn(r, r0, cs, i, row, n, k) ==
    IF k > n THEN <<row, n>>
    ELSE IF Exceeds(r, r0, cs, i, row[k])
         THEN BreakRowSkipsSwappedIn(r, r0, cs, i, Swap(row, k, n), n - 1, k + 1)
         ELSE BreakRowSkipsSwappedIn(r, r0, cs, i, row, n, k + 1)

\* break_bonds, work item i: scan the active prefix; a bond over the critical
\* strain is swapped to the end of the prefix and the prefix shrinks by one.
RECURSIVE BreakRow(_, _, _, _, _, _, _)
BreakRow(r, r0, cs, i, row, n, k) ==
    IF k > n THEN <<row, n>>
    ELSE IF Exceeds(r, r0, cs, i, row[k])
         THEN BreakRow(r, r0, cs, i, Swap(row, k, n), n - 1, k)
         ELSE BreakRow(r, r0, cs, i, row, n, k + 1)

break_bonds_kernel(r, r0, nl, nn, max_neigh, cs) ==
    LET out == [i \in Nodes |-> BreakRow(r, r0, cs, i, nl[i], nn[i], 1)]
    IN << [i \in Nodes |-> out[i][1]], [i \in Nodes |-> out[i][2]] >>

\* damage, work item i: (family - n_neigh) / family; 0 for a node of family 0.
damage_kernel(nn, fam) ==
    [i \in Nodes |-> IF fam[i] = 0 THEN <<0, 1>> ELSE Rat(fam[i] - nn[i], fam[i])]

\* ------------------------------------------------------------ the callers' inputs

XField(a, b, c, d) == << <<a, 0, 0>>, <<b, 0, 0>>, <<c, 0, 0>>, <<d, 0, 0>> >>

Zeros == XField(0, 0, 0, 0)

\* Displacement fields an integrator may return: nothing moves; bond 1-2
\* stretched to 3/4 and bond 2-3 to exactly 1/2; bond 1-2 compressed to -3/4
\* and bond 2-3 stretched to 3/4.
IntegratorOut == {Zeros, XField(-3, 0, 2, 0), XField(3, 0, 3, 0)}

\* Displacement fields a caller's boundary function may return.
BoundaryOut == {Zeros, XField(3, 0, 3, 0)}

\* Initial displacements a caller may pass (None: zeros).
UArgs == {None, XField(-3, 0, 2, 0)}

\* first_step values a caller may pass (1 is the default).
FirstSteps == {1, 2}

\* What an integrator or a boundary function may raise.
Exceptions == {"ArithmeticError", "KeyError"}

\* A connectivity a caller may pass that no run returned: bond 1-2 already
\* broken in row 2 (a resumed run whose rows were compacted elsewhere).
SuppliedConns ==
    { << << <<2, 1>>, <<3, 1>>, <<2, 1>>, <<1, 1>> >>, <<1, 1, 1, 0>> >> }

\* A connectivity a caller may pass whose active count for node 1 is above
\* that node's family count (within the row's capacity).
OverfullConns ==
    { << << <<2, 3>>, <<1, 3>>, <<2, 1>>, <<1, 1>> >>, <<2, 2, 1, 0>> >> }

\* Contents a freshly allocated device buffer may have when it is read before
\* any kernel wrote it: every cell 0.0, or every cell 2.5.
Uninitialised == { [i \in Nodes |-> <<0, 1>>], [i \in Nodes |-> <<5, 2>>] }

\* --------------------------------------------------------------------- state

VARIABLES
    context_arg,        \* the context argument of ModelCL(...)
    found,              \* what get_context() returned (Unset: not called)
    context, program, queue,
                        \* self.context, self.program, self.queue; a program
                        \* and a queue are the context they were made for
    kernels,            \* the kernels fetched from self.program
    init_raised,        \* the exception that left __init__ ("None": none)
    in_flight,          \* the commands on self.queue that the host has not
                        \* yet waited for, oldest first
    pc,                 \* the host's position in __init__ and simulate
    run,                \* calls of simulate so far
    steps, first_step, write, boundary_function, u_arg, connectivity,
                        \* the arguments of the current call
    step,               \* the loop variable
    u, force, damage, nlist, n_neigh,
                        \* host arrays (None: np.empty, not yet written)
    r0_d, volume_d, family_d, r_d, nlist_d, n_neigh_d, damage_d, force_d,
                        \* device buffers (None: allocated, not yet written)
    trace,              \* the calls of the current run, in order
    int_out,            \* what the integrator returned in the current step
    bnd_out,            \* the boundary function's call in the current step:
                        \* <<the displacements passed, those returned>>
    written,            \* the write_mesh calls of the current run, in order
    thrown,             \* the exception the integrator or the boundary
                        \* function raised in the current run ("None": none)
    raised,             \* the exception that left simulate ("None": none)
    result              \* what simulate returned (None: nothing yet)

object == <<context_arg, found, context, program, queue, kernels, init_raised>>

args == <<steps, first_step, write, boundary_function, u_arg, connectivity>>

host == <<u, force, damage, nlist, n_neigh>>

constbufs == <<r0_d, volume_d, family_d>>

neighbufs == <<nlist_d, n_neigh_d>>

history == <<int_out, bnd_out, written>>

vars == <<object, in_flight, pc, run, args, step, host, constbufs, r_d,
          neighbufs, damage_d, force_d, trace, history, thrown, raised, result>>

Ev(op, s) == [op |-> op, step |-> s, final |-> FALSE]

FinalEv(op) == [op |-> op, step |-> 0, final |-> TRUE]

\* No call of simulate was made yet.
NoRunYet ==
    /\ run = 0
    /\ steps = 0 /\ first_step = 1 /\ write = 0
    /\ boundary_function = "None" /\ u_arg = None /\ connectivity = None
    /\ step = 1
    /\ u = None /\ force = None /\ damage = None /\ nlist = None /\ n_neigh = None
    /\ r0_d = None /\ volume_d = None /\ family_d = None /\ r_d = None
    /\ nlist_d = None /\ n_neigh_d = None /\ damage_d = None /\ force_d = None
    /\ trace = <<>>
    /\ int_out = None /\ bnd_out = None /\ written = <<>>
    /\ thrown = "None" /\ raised = "None"
    /\ result = None
    /\ in_flight = <<>>

\* ------------------------------------------------------------------ __init__

\* A Python value as far as __init__ looks at it: its type and, for a
\* context, its devices.
PyNone == [type |-> "NoneType", devices |-> <<>>]

\* An attribute that was not assigned.
Unset == [type |-> "unset", devices |-> <<>>]

Device(fp64) == [double_fp |-> fp64]

Context(devs) == [type |-> "Context", devices |-> devs]

double_fp_support(device) == device.double_fp

\* What a caller may pass as context: nothing, a string, a context whose
\* only device has or lacks double precision, and contexts of two devices of
\* which one lacks it.
ContextArgs ==
    { PyNone,
      [type |-> "str", devices |-> <<>>],
      Context(<<Device(TRUE)>>),
      Context(<<Device(FALSE)>>),
      Context(<<Device(TRUE), Device(FALSE)>>),
      Context(<<Device(FALSE), Device(TRUE)>>) }

\* What get_context() may return: a context on a device with double
\* precision, or None when the machine has no such device.
GetContextResults == { PyNone, Context(<<Device(TRUE)>>) }

KernelNames == {"damage", "break_bonds", "bond_force"}

\* Mutant: the supplied context's device is not asked for double precision.
InitErrorNoPrecisionCheck(arg, ctx) ==
    IF arg = PyNone
    THEN IF ctx.type # "Context" THEN "ContextError" ELSE "None"
    ELSE IF ctx.type # "Context" THEN "TypeError" ELSE "None"

\* Lines 18-31: the exception __init__ raises for the argument arg once
\* self.context is ctx ("None": none).
InitError(arg, ctx) ==
    IF arg = PyNone
    THEN IF ctx.type # "Context" THEN "ContextError" ELSE "None"
    ELSE IF ctx.type # "Context" THEN "TypeError"
         ELSE IF ~double_fp_support(ctx.devices[1]) THEN "ValueError"
         ELSE "None"

\* self.context after line 19 or line 24
InitContext(arg, fnd) == IF arg = PyNone THEN fnd ELSE arg

\* ModelCL(..., context=arg), where get_context() would return fnd.
InitWith(arg, fnd) ==
    /\ context_arg' = arg
    /\ found' = IF arg = PyNone THEN fnd ELSE Unset
    /\ context' = InitContext(arg, fnd)
    /\ init_raised' = InitError(arg, InitContext(arg, fnd))
    /\ IF InitError(arg, InitContext(arg, fnd)) = "None"
       THEN /\ program' = InitContext(arg, fnd)
            /\ queue' = InitContext(arg, fnd)
            /\ kernels' = KernelNames
            /\ pc' = "idle"
       ELSE /\ UNCHANGED <<program, queue, kernels>>
            /\ pc' = "init_failed"

Construct ==
    /\ pc = "new"
    /\ \E arg \in ContextArgs, fnd \in GetContextResults : InitWith(arg, fnd)
    /\ UNCHANGED <<in_flight, run, args, step, host, constbufs, r_d, neighbufs,
                   damage_d, force_d, trace, history, thrown, raised, result>>

\* Before ModelCL(...) is called.
NotConstructed ==
    /\ pc = "new"
    /\ context_arg = Unset /\ found = Unset /\ context = Unset
    /\ program = Unset /\ queue = Unset /\ kernels = {}
    /\ init_raised = "None"
    /\ NoRunYet

\* After ModelCL(...) without a context argument, on a machine where
\* get_context() finds a device.
Init ==
    /\ pc = "idle"
    /\ context_arg = PyNone
    /\ found = Context(<<Device(TRUE)>>)
    /\ context = Context(<<Device(TRUE)>>)
    /\ program = Context(<<Device(TRUE)>>)
    /\ queue = Context(<<Device(TRUE)>>)
    /\ kernels = KernelNames
    /\ init_raised = "None"
    /\ NoRunYet

\* ----------------------------------------------------- simulate, before the loop

\* Model._simulate_initialise: the defaults of u and connectivity.
InitialU(ua) == IF ua = None THEN Zeros ELSE ua

InitialConnectivity(c) == IF c = None THEN initial_connectivity ELSE c

\* Mutant: hostbuf=self.coords
CoordBufferWithoutU(uu) == coords

\* hostbuf=self.coords+u
CoordBuffer(uu) == [i \in Nodes |-> VAdd(coords[i], uu[i])]

\* Mutant: the count buffer is built with hostbuf=nlist, so that count i is
\* the i-th cell of the flattened list (a node number of the code).
NeighbourBuffersCountsFromList(nl, nn) ==
    <<nl, [i \in Nodes |-> nl[((i - 1) \div max_neighbours) + 1]
                             [((i - 1) % max_neighbours) + 1] - 1]>>

\* Mutant: the count buffer is built with hostbuf=self.family.
NeighbourBuffersCountsFromFamily(nl, nn) == <<nl, family>>

\* hostbuf=nlist and hostbuf=n_neigh
NeighbourBuffers(nl, nn) == <<nl, nn>>

\* Mutant: the range includes its end.
LoopTestInclusive(s, first, n) ==
    IF s <= first + n THEN "bond_force" ELSE "sync_damage"

\* for step in trange(first_step, first_step+steps): the loop's test for the
\* value s of the loop variable
LoopTest(s, first, n) == IF s < first + n THEN "bond_force" ELSE "sync_damage"

\* Lines 115-151 for the arguments (n, f, w, bf, ua, c); garbage is what the
\* new damage buffer happens to hold.
Start(n, f, w, bf, ua, c, garbage) ==
    /\ steps' = n /\ first_step' = f /\ write' = w
    /\ boundary_function' = bf /\ u_arg' = ua /\ connectivity' = c
    /\ nlist' = InitialConnectivity(c)[1]
    /\ n_neigh' = InitialConnectivity(c)[2]
    /\ u' = InitialU(ua)
    /\ r0_d' = coords /\ volume_d' = volume /\ family_d' = family
    /\ r_d' = CoordBuffer(InitialU(ua))
    /\ nlist_d' = NeighbourBuffers(InitialConnectivity(c)[1],
                                   InitialConnectivity(c)[2])[1]
    /\ n_neigh_d' = NeighbourBuffers(InitialConnectivity(c)[1],
                                     InitialConnectivity(c)[2])[2]
    /\ damage' = None /\ damage_d' = garbage
    /\ force' = None /\ force_d' = None
    /\ step' = f
    /\ pc' = LoopTest(f, f, n)
    /\ run' = run + 1
    /\ trace' = <<>>
    /\ int_out' = None /\ bnd_out' = None /\ written' = <<>>
    /\ thrown' = "None" /\ raised' = "None"
    /\ result' = None
    /\ UNCHANGED <<object, in_flight>>

\* The first call of simulate on the object.
SimulateWith(conns) ==
    /\ pc = "idle"
    /\ \E n \in 0..MaxSteps, f \in FirstSteps, w \in 0..MaxWrite,
          bf \in {"None", "user"}, ua \in UArgs, c \in conns,
          garbage \in Uninitialised :
          Start(n, f, w, bf, ua, c, garbage)

Simulate == SimulateWith({None} \cup SuppliedConns)

SimulateAnyConnectivity ==
    SimulateWith({None} \cup SuppliedConns \cup OverfullConns)

\* A later call that restarts from what the previous call returned: its
\* displacements, its connectivity and the next step number.
Restart ==
    /\ pc = "done"
    /\ run < MaxRuns
    /\ \E n \in 0..MaxSteps, garbage \in Uninitialised :
          Start(n, first_step + steps, write, boundary_function, result[1],
                result[3], garbage)

\* ------------------------------------------------------------------ one step

BondForce ==
    /\ pc = "bond_force"
    /\ force_d' = bond_force_kernel(r_d, r0_d, nlist_d, n_neigh_d,
                                    max_neighbours, volume_d, bond_stiffness)
    /\ trace' = Append(trace, Ev("bond_force", step))
    /\ pc' = "copy_force"
    /\ UNCHANGED <<object, in_flight, thrown>>
    /\ UNCHANGED <<run, args, step, host, constbufs, r_d, neighbufs, damage_d,
                   history, raised, result>>

CopyForce ==
    /\ pc = "copy_force"
    /\ force' = force_d
    /\ trace' = Append(trace, Ev("copy_force", step))
    /\ pc' = "integrator"
    /\ UNCHANGED <<object, in_flight, thrown>>
    /\ UNCHANGED <<run, args, step, u, damage, nlist, n_neigh, constbufs, r_d,
                   neighbufs, damage_d, force_d, history, raised, result>>

Integrate ==
    /\ pc = "integrator"
    /\ \E v \in IntegratorOut : u' = v /\ int_out' = v
    /\ trace' = Append(trace, Ev("integrator", step))
    /\ pc' = "boundary_function"
    /\ UNCHANGED <<object, in_flight, thrown>>
    /\ UNCHANGED <<run, args, step, force, damage, nlist, n_neigh, constbufs,
                   r_d, neighbufs, damage_d, force_d, bnd_out, written, raised,
                   result>>

\* Mutant: the loop is left through the final synchronisation (a finally
\* clause around the loop).
IntegratorRaisesThenSyncs ==
    /\ pc = "integrator"
    /\ \E e \in Exceptions : thrown' = e /\ raised' = e
    /\ trace' = Append(trace, Ev("integrator", step))
    /\ pc' = "sync_damage"
    /\ UNCHANGED <<object, in_flight>>
    /\ UNCHANGED <<run, args, step, host, constbufs, r_d, neighbufs, damage_d,
                   force_d, history, result>>

IntegratorRaises ==
    /\ pc = "integrator"
    /\ \E e \in Exceptions : thrown' = e /\ raised' = e
    /\ trace' = Append(trace, Ev("integrator", step))
    /\ pc' = "aborted"
    /\ UNCHANGED <<object, in_flight>>
    /\ UNCHANGED <<run, args, step, host, constbufs, r_d, neighbufs, damage_d,
                   force_d, history, result>>

\* The default boundary function returns its argument.
BoundaryResults == IF boundary_function = "None" THEN {u} ELSE BoundaryOut

\* Mutant: the coordinate buffer is not refreshed after the boundary function.
ApplyBoundarySkipsRefresh ==
    /\ pc = "boundary_function"
    /\ \E b \in BoundaryResults : u' = b /\ bnd_out' = <<u, b>>
    /\ trace' = Append(trace, Ev("boundary_function", step))
    /\ pc' = "break_bonds"
    /\ UNCHANGED <<object, in_flight, thrown>>
    /\ UNCHANGED <<run, args, step, force, damage, nlist, n_neigh, constbufs,
                   r_d, neighbufs, damage_d, force_d, int_out, written, raised,
                   result>>

ApplyBoundary ==
    /\ pc = "boundary_function"
    /\ \E b \in BoundaryResults : u' = b /\ bnd_out' = <<u, b>>
    /\ trace' = Append(trace, Ev("boundary_function", step))
    /\ pc' = "refresh"
    /\ UNCHANGED <<object, in_flight, thrown>>
    /\ UNCHANGED <<run, args, step, force, damage, nlist, n_neigh, constbufs,
                   r_d, neighbufs, damage_d, force_d, int_out, written, raised,
                   result>>

BoundaryRaises ==
    /\ pc = "boundary_function"
    /\ boundary_function = "user"
    /\ \E e \in Exceptions : thrown' = e /\ raised' = e
    /\ trace' = Append(trace, Ev("boundary_function", step))
    /\ pc' = "aborted"
    /\ UNCHANGED <<object, in_flight>>
    /\ UNCHANGED <<run, args, step, host, constbufs, r_d, neighbufs, damage_d,
                   force_d, history, result>>

\* Mutant: the buffer is built from the integrator's output.
RefreshCoordsUnadjusted ==
    /\ pc = "refresh"
    /\ r_d' = CoordBuffer(int_out)
    /\ trace' = Append(trace, Ev("refresh", step))
    /\ pc' = "break_bonds"
    /\ UNCHANGED <<object, in_flight, thrown>>
    /\ UNCHANGED <<run, args, step, host, constbufs, neighbufs, damage_d,
                   force_d, history, raised, result>>

\* Mutant: the neighbour buffers are rebuilt from the host arrays with the
\* coordinate buffer.
RefreshCoordsReuploads ==
    /\ pc = "refresh"
    /\ r_d' = CoordBuffer(u)
    /\ nlist_d' = nlist /\ n_neigh_d' = n_neigh
    /\ trace' = Append(trace, Ev("refresh", step))
    /\ pc' = "break_bonds"
    /\ UNCHANGED <<object, in_flight, thrown>>
    /\ UNCHANGED <<run, args, step, host, constbufs, damage_d, force_d,
                   history, raised, result>>

\* Mutant: the new buffer is assigned to r0_d.
RefreshCoordsIntoReference ==
    /\ pc = "refresh"
    /\ r0_d' = CoordBuffer(u)
    /\ trace' = Append(trace, Ev("refresh", step))
    /\ pc' = "break_bonds"
    /\ UNCHANGED <<object, in_flight, thrown>>
    /\ UNCHANGED <<run, args, step, host, volume_d, family_d, r_d, neighbufs,
                   damage_d, force_d, history, raised, result>>

RefreshCoords ==
    /\ pc = "refresh"
    /\ r_d' = CoordBuffer(u)
    /\ trace' = Append(trace, Ev("refresh", step))
    /\ pc' = "break_bonds"
    /\ UNCHANGED <<object, in_flight, thrown>>
    /\ UNCHANGED <<run, args, step, host, constbufs, neighbufs, damage_d,
                   force_d, history, raised, result>>

\* Mutant: the reference coordinates are passed as the current ones.
BreakBondsOnReference ==
    /\ pc = "break_bonds"
    /\ nlist_d' = break_bonds_kernel(r0_d, r0_d, nlist_d, n_neigh_d,
                                     max_neighbours, critical_strain)[1]
    /\ n_neigh_d' = break_bonds_kernel(r0_d, r0_d, nlist_d, n_neigh_d,
                                       max_neighbours, critical_strain)[2]
    /\ trace' = Append(trace, Ev("break_bonds", step))
    /\ pc' = "damage"
    /\ UNCHANGED <<object, in_flight, thrown>>
    /\ UNCHANGED <<run, args, step, host, constbufs, r_d, damage_d, force_d,
                   history, raised, result>>

BreakBonds ==
    /\ pc = "break_bonds"
    /\ nlist_d' = break_bonds_kernel(r_d, r0_d, nlist_d, n_neigh_d,
                                     max_neighbours, critical_strain)[1]
    /\ n_neigh_d' = break_bonds_kernel(r_d, r0_d, nlist_d, n_neigh_d,
                                       max_neighbours, critical_strain)[2]
    /\ trace' = Append(trace, Ev("break_bonds", step))
    /\ pc' = "damage"
    /\ UNCHANGED <<object, in_flight, thrown>>
    /\ UNCHANGED <<run, args, step, host, constbufs, r_d, damage_d, force_d,
                   history, raised, result>>

\* Mutant: the interval is counted from first_step.
AfterDamageCountsFromFirst(s, w, first, n) ==
    IF w # 0 /\ (s - first) % w = 0 THEN "write_copy"
    ELSE LoopTest(s + 1, first, n)

\* if write: if step % write == 0: ... ; then the loop's next value
AfterDamage(s, w, first, n) ==
    IF w # 0 /\ s % w = 0 THEN "write_copy" ELSE LoopTest(s + 1, first, n)

\* Mutant: the kernel's two input buffers are passed in the other order.
DamageSwappedArguments ==
    /\ pc = "damage"
    /\ damage_d' = damage_kernel(family_d, n_neigh_d)
    /\ trace' = Append(trace, Ev("damage", step))
    /\ pc' = AfterDamage(step, write, first_step, steps)
    /\ step' = IF pc' = "write_copy" THEN step ELSE step + 1
    /\ UNCHANGED <<object, in_flight, thrown>>
    /\ UNCHANGED <<run, args, host, constbufs, r_d, neighbufs, force_d,
                   history, raised, result>>

Damage ==
    /\ pc = "damage"
    /\ damage_d' = damage_kernel(n_neigh_d, family_d)
    /\ trace' = Append(trace, Ev("damage", step))
    /\ pc' = AfterDamage(step, write, first_step, steps)
    /\ step' = IF pc' = "write_copy" THEN step ELSE step + 1
    /\ UNCHANGED <<object, in_flight, thrown>>
    /\ UNCHANGED <<run, args, host, constbufs, r_d, neighbufs, force_d,
                   history, raised, result>>

\* Mutant: the copy goes from the host array to the device buffer.
WriteCopyToDevice ==
    /\ pc = "write_copy"
    /\ damage_d' = damage
    /\ trace' = Append(trace, Ev("copy_damage", step))
    /\ pc' = "write_mesh"
    /\ UNCHANGED <<object, in_flight, thrown>>
    /\ UNCHANGED <<run, args, step, host, constbufs, r_d, neighbufs, force_d,
                   history, raised, result>>

WriteCopy ==
    /\ pc = "write_copy"
    /\ damage' = damage_d
    /\ trace' = Append(trace, Ev("copy_damage", step))
    /\ pc' = "write_mesh"
    /\ UNCHANGED <<object, in_flight, thrown>>
    /\ UNCHANGED <<run, args, step, u, force, nlist, n_neigh, constbufs, r_d,
                   neighbufs, damage_d, force_d, history, raised, result>>

\* self.write_mesh(write_path/f"U_{step}.vtk", damage, u)
WriteMesh ==
    /\ pc = "write_mesh"
    /\ written' = Append(written, [path |-> <<"U_", step, ".vtk">>,
                                   damage |-> damage, u |-> u])
    /\ trace' = Append(trace, Ev("write_mesh", step))
    /\ pc' = LoopTest(step + 1, first_step, steps)
    /\ step' = step + 1
    /\ UNCHANGED <<object, in_flight, thrown>>
    /\ UNCHANGED <<run, args, host, constbufs, r_d, neighbufs, damage_d,
                   force_d, int_out, bnd_out, raised, result>>

\* ------------------------------------------------------------ after the loop

\* Mutant: the final copy of the damage buffer is left out when a snapshot
\* already copied it.
SyncDamageUnlessWritten ==
    /\ pc = "sync_damage"
    /\ damage' = IF written = <<>> THEN damage_d ELSE damage
    /\ trace' = IF written = <<>> THEN Append(trace, FinalEv("copy_damage"))
                ELSE trace
    /\ pc' = "sync_nlist"
    /\ UNCHANGED <<object, in_flight, thrown>>
    /\ UNCHANGED <<run, args, step, u, force, nlist, n_neigh, constbufs, r_d,
                   neighbufs, damage_d, force_d, history, raised, result>>

SyncDamage ==
    /\ pc = "sync_damage"
    /\ damage' = damage_d
    /\ trace' = Append(trace, FinalEv("copy_damage"))
    /\ pc' = "sync_nlist"
    /\ UNCHANGED <<object, in_flight, thrown>>
    /\ UNCHANGED <<run, args, step, u, force, nlist, n_neigh, constbufs, r_d,
                   neighbufs, damage_d, force_d, history, raised, result>>

SyncNlist ==
    /\ pc = "sync_nlist"
    /\ nlist' = nlist_d
    /\ trace' = Append(trace, FinalEv("copy_nlist"))
    /\ pc' = "sync_n_neigh"
    /\ UNCHANGED <<object, in_flight, thrown>>
    /\ UNCHANGED <<run, args, step, u, force, damage, n_neigh, constbufs, r_d,
                   neighbufs, damage_d, force_d, history, raised, result>>

SyncNNeigh ==
    /\ pc = "sync_n_neigh"
    /\ n_neigh' = n_neigh_d
    /\ trace' = Append(trace, FinalEv("copy_n_neigh"))
    /\ pc' = "return"
    /\ UNCHANGED <<object, in_flight, thrown>>
    /\ UNCHANGED <<run, args, step, u, force, damage, nlist, constbufs, r_d,
                   neighbufs, damage_d, force_d, history, raised, result>>

Return ==
    /\ pc = "return"
    /\ result' = <<u, damage, <<nlist, n_neigh>>>>
    /\ pc' = "done"
    /\ UNCHANGED <<object, in_flight, thrown>>
    /\ UNCHANGED <<run, args, step, host, constbufs, r_d, neighbufs, damage_d,
                   force_d, trace, history, raised>>

StepActions ==
    \/ BondForce \/ CopyForce \/ Integrate \/ IntegratorRaises
    \/ ApplyBoundary \/ BoundaryRaises \/ RefreshCoords \/ BreakBonds
    \/ Damage \/ WriteCopy \/ WriteMesh
    \/ SyncDamage \/ SyncNlist \/ SyncNNeigh \/ Return

Next == Simulate \/ Restart \/ StepActions

Spec == Init /\ [][Next]_vars

NextAnyConnectivity == SimulateAnyConnectivity \/ Restart \/ StepActions

SpecAnyConnectivity == Init /\ [][NextAnyConnectivity]_vars

\* ------------------------------------------------------------------- claims

Last(s) == s[Len(s)]

IsPrefix(s, t) == Len(s) <= Len(t) /\ \A k \in 1..Len(s) : s[k] = t[k]

\* The calls made inside the loop, without those of the final synchronisation.
LoopCalls == SelectSeq(trace, LAMBDA e : ~e.final)

FinalCalls == SelectSeq(trace, LAMBDA e : e.final)

Snapshot(s, w) == w # 0 /\ s % w = 0

\* The order the claim gives for step s of a run with write interval w.
StepOrder(s, w) ==
    << Ev("bond_force", s), Ev("copy_force", s), Ev("integrator", s),
       Ev("boundary_function", s), Ev("refresh", s), Ev("break_bonds", s),
       Ev("damage", s) >>
    \o (IF Snapshot(s, w)
        THEN <<Ev("copy_damage", s), Ev("write_mesh", s)>> ELSE <<>>)

RECURSIVE RunOrder(_, _, _)
RunOrder(s, n, w) ==
    IF n = 0 THEN <<>> ELSE StepOrder(s, w) \o RunOrder(s + 1, n - 1, w)

\* C1: in every step the calls are Force Kernel, copy of the force buffer,
\* integrator, boundary function, refresh of the coordinate buffer, Breaking
\* Kernel, Damage Kernel, then the optional snapshot, and step t+1 starts
\* only after the last call of step t: the calls made so far are always an
\* initial part of that order laid end to end for first_step, first_step+1, ...
C1_StepOrder == IsPrefix(LoopCalls, RunOrder(first_step, steps, write))

C1_Witness ==
    /\ pc = "done" /\ steps = 2 /\ Len(written) = 1
    /\ LoopCalls = RunOrder(first_step, steps, write)

InStepAfterRefresh == pc \in {"break_bonds", "damage", "write_copy", "write_mesh"}

\* C2: the coordinate buffer pushed to the device in a step, which that
\* step's Breaking Kernel reads, is coords + b for the b the boundary function
\* returned when given that step's integrator output; the integrator's output
\* is not what is pushed when b differs from it, and the displacement simulate
\* returns after at least one step is the last b.
C2_BoundaryWins ==
    /\ InStepAfterRefresh =>
          /\ bnd_out[1] = int_out
          /\ r_d = [i \in Nodes |-> VAdd(coords[i], bnd_out[2][i])]
          /\ bnd_out[2] # int_out =>
                r_d # [i \in Nodes |-> VAdd(coords[i], int_out[i])]
    /\ (pc = "done" /\ steps > 0) => result[1] = bnd_out[2]

C2_Witness == pc = "break_bonds" /\ bnd_out[2] # int_out

Count(s, e) == Len(SelectSeq(s, LAMBDA x : x = e))

\* C3: a run that ends without a failure has copied the damage buffer, the
\* neighbour-list buffer and the active-count buffer to the host exactly once
\* each after the last step, and returned (u, damage, (nlist, n_neigh)) with
\* the host arrays holding what the device buffers hold.
C3_FinalSync ==
    pc = "done" =>
       /\ Len(FinalCalls) = 3
       /\ \A op \in {"copy_damage", "copy_nlist", "copy_n_neigh"} :
             Count(trace, FinalEv(op)) = 1
       /\ trace = LoopCalls \o FinalCalls
       /\ LoopCalls = RunOrder(first_step, steps, write)
       /\ result = <<u, damage_d, <<nlist_d, n_neigh_d>>>>

C3_Witness == pc = "done" /\ steps > 0 /\ Len(written) > 0 /\ n_neigh_d # family

\* damage value d = <<numerator, denominator>> equals (fam - n) / fam
IsDamageOf(d, fam, n) == d[1] * fam = d[2] * (fam - n)

\* C4: the damage simulate returns is (family - n_neigh) / family for every
\* node, n_neigh being the active counts returned with it, also when steps = 0.
C4_ReturnedDamage ==
    result # None =>
       \A i \in Nodes : IsDamageOf(result[2][i], family[i], result[3][2][i])

InBounds(nn) == \A i \in Nodes : 0 <= nn[i] /\ nn[i] <= family[i]
                                  /\ family[i] <= max_neighbours

\* C5 as stated: in every state of a run 0 <= n_neigh[i] <= family[i] <=
\* max_neighbours, on the device and on the host, whatever connectivity the
\* caller passed, and no Breaking Kernel invocation raises an active count.
C5_BoundsForAnyConnectivity ==
    /\ [](pc # "idle" => InBounds(n_neigh_d) /\ InBounds(n_neigh))
    /\ [][pc = "break_bonds" =>
             \A i \in Nodes : n_neigh_d'[i] <= n_neigh_d[i]]_vars

\* C5, amended: in a run that starts from a connectivity within the bounds
\* (the one captured at construction, or one an earlier such run returned),
\* 0 <= n_neigh[i] <= family[i] <= max_neighbours holds in every state, on the
\* device and on the host; and for any starting connectivity no Breaking
\* Kernel invocation raises an active count.
C5_BoundsAndMonotone ==
    /\ [](pc # "idle" /\ InBounds(InitialConnectivity(connectivity)[2])
             => InBounds(n_neigh_d) /\ InBounds(n_neigh))
    /\ [][pc = "break_bonds" =>
             \A i \in Nodes : n_neigh_d'[i] <= n_neigh_d[i]]_vars

C5_Witness ==
    /\ pc = "damage" /\ connectivity \in SuppliedConns
    /\ \E i \in Nodes : n_neigh_d[i] < n_neigh[i]

\* The neighbours in the active prefix of row i.
Active(nl, nn, i) == {nl[i][c] : c \in 1..nn[i]}

\* C6: within a run no call puts a neighbour into the active prefix of any
\* row, on the device or on the host: the active set of every row after a call
\* is a subset of the one before it, whatever displacements were pushed.
C6_Irreversible ==
    [][pc \notin {"idle", "done"} =>
          \A i \in Nodes :
             /\ Active(nlist_d', n_neigh_d', i) \subseteq Active(nlist_d, n_neigh_d, i)
             /\ Active(nlist', n_neigh', i) \subseteq Active(nlist, n_neigh, i)]_vars

\* A second step that pushed the reference coordinates again after the first
\* step broke bond 1-2: the bond is still out of both rows.
C6_Witness ==
    /\ pc = "damage" /\ step = first_step + 1 /\ connectivity = None
    /\ u_arg = None /\ r_d = coords
    /\ Active(nlist_d, n_neigh_d, 1) = {} /\ Active(nlist_d, n_neigh_d, 2) = {3}

AfterDamageKernel == trace # <<>> /\ Last(trace).op = "damage"

C8_RoundTrip ==
    (pc = "done" /\ steps = 0 /\ connectivity # None) => result[3] = connectivity

C8_Witness ==
    /\ pc = "done" /\ steps = 0 /\ run = 2
    /\ connectivity[2] # family /\ connectivity \notin SuppliedConns

WrittenSteps == [k \in 1..Len(written) |-> written[k].path[2]]

\* The steps s of first, first+1, ..., first+n-1 with s mod w = 0, in order.
RECURSIVE Hits(_, _, _)
Hits(s, n, w) ==
    IF n = 0 THEN <<>>
    ELSE (IF s % w = 0 THEN <<s>> ELSE <<>>) \o Hits(s + 1, n - 1, w)

\* C9: with a write interval w the mesh writer is called once for each step
\* s of the run with s mod w = 0, in increasing order, and for no other step;
\* each call comes after the Damage Kernel of step s, with the damage that
\* kernel computed, the displacements of step s and a path tagged s.  With
\* write = None the writer is never called and the damage buffer is copied
\* to the host by the final synchronisation only.
C9_Snapshots ==
    /\ write = 0 =>
          /\ written = <<>>
          /\ \A k \in 1..Len(trace) : trace[k].op = "copy_damage" => trace[k].final
    /\ write # 0 =>
          /\ IsPrefix(WrittenSteps, Hits(first_step, steps, write))
          /\ pc = "done" => WrittenSteps = Hits(first_step, steps, write)
    /\ (trace # <<>> /\ Last(trace).op = "write_mesh") =>
          /\ Len(trace) >= 3
          /\ trace[Len(trace) - 2] = Ev("damage", Last(trace).step)
          /\ trace[Len(trace) - 1] = Ev("copy_damage", Last(trace).step)
          /\ Last(written).path = <<"U_", Last(trace).step, ".vtk">>
          /\ Last(written).damage = damage_d
          /\ Last(written).u = bnd_out[2]

C9_Witness ==
    /\ pc = "done" /\ write = 2 /\ steps = 2 /\ Len(written) = 1
    /\ written[1].damage # [i \in Nodes |-> <<0, 1>>]

StepsOf(op) ==
    LET calls == SelectSeq(trace, LAMBDA e : e.op = op /\ ~e.final)
    IN [k \in 1..Len(calls) |-> calls[k].step]

FromTo(first, n) == [k \in 1..n |-> first + k - 1]

LoopOps == {"bond_force", "copy_force", "integrator", "boundary_function",
            "refresh", "break_bonds", "damage"}

Running == pc \notin {"idle", "done", "aborted"}

\* C10: a run in which neither the integrator nor the boundary function
\* fails ends, after exactly `steps` steps: every kernel, the integrator and
\* the boundary function were called once per step, the boundary function
\* with first_step, first_step+1, ..., first_step+steps-1 in that order; with
\* steps = 0 none of them is called and the initial displacement is returned.
C10_Terminates ==
    /\ [](pc = "done" =>
            /\ \A op \in LoopOps : StepsOf(op) = FromTo(first_step, steps)
            /\ steps = 0 => LoopCalls = <<>> /\ result[1] = InitialU(u_arg))
    /\ [](pc = "aborted" => raised \in Exceptions)
    /\ (Running ~> (pc = "done" \/ pc = "aborted"))

C10_Witness ==
    /\ pc = "done" /\ steps = 2 /\ first_step = 2
    /\ StepsOf("boundary_function") = <<2, 3>>

\* One call of simulate; once called, the host thread keeps running it.
NextOneCall == Simulate \/ StepActions

LiveSpec == Init /\ [][NextOneCall]_vars /\ WF_vars(StepActions)

\* A ModelCL from its construction on, with one call of simulate.
NextConstruct == Construct \/ Simulate \/ StepActions

SpecConstruct == NotConstructed /\ [][NextConstruct]_vars

ConfigurationErrors == {"ContextError", "TypeError", "ValueError"}

\* C11: a configuration error is raised by the constructor and never by
\* simulate.  The constructor fails with ContextError when no context was
\* passed and get_context found none, with TypeError when what was passed is
\* not a context, and with ValueError when device 0 of the passed context
\* lacks double precision; a failed constructor has built no program, no
\* queue and no kernel.  Every object simulate can be called on holds a
\* context whose device 0 supports double precision, with the program, the
\* queue and the three kernels built for it.
C11_ConfigurationErrors ==
    /\ pc = "init_failed" =>
          /\ program = Unset /\ queue = Unset /\ kernels = {}
          /\ run = 0 /\ trace = <<>>
          /\ init_raised =
                IF context_arg = PyNone THEN "ContextError"
                ELSE IF context_arg.type # "Context" THEN "TypeError"
                ELSE "ValueError"
          /\ init_raised = "ContextError" => found.type # "Context"
          /\ init_raised = "ValueError" =>
                ~double_fp_support(context_arg.devices[1])
    /\ pc \notin {"new", "init_failed"} =>
          /\ init_raised = "None"
          /\ context.type = "Context"
          /\ double_fp_support(context.devices[1])
          /\ program = context /\ queue = context /\ kernels = KernelNames
          /\ raised \notin ConfigurationErrors

\* The constructor refused a context whose device 0 lacks double precision
\* (its device 1 has it), and built nothing.
C11_Witness ==
    /\ pc = "init_failed" /\ init_raised = "ValueError"
    /\ context_arg = Context(<<Device(FALSE), Device(TRUE)>>)
    /\ program = Unset /\ queue = Unset /\ kernels = {}

\* C12: once the integrator or the boundary function has raised in step t,
\* simulate is aborted with the exception that was raised; the failing call
\* is the last call of the run (no refresh, no kernel, no snapshot, no step
\* t+1), no copy of the final synchronisation was made and nothing was
\* returned.  simulate aborts in no other way.
C12_FailurePropagates ==
    /\ thrown # "None" =>
          /\ pc = "aborted"
          /\ raised = thrown
          /\ Last(trace).op \in {"integrator", "boundary_function"}
          /\ Last(trace).step = step /\ ~Last(trace).final
          /\ IsPrefix(LoopCalls, RunOrder(first_step, steps, write))
          /\ FinalCalls = <<>>
          /\ result = None
    /\ pc = "aborted" => thrown \in Exceptions

\* The boundary function raised in the second step of a run that writes
\* snapshots.
C12_Witness ==
    /\ pc = "aborted" /\ thrown = "KeyError"
    /\ Last(trace).op = "boundary_function"
    /\ step = first_step + 1 /\ write = 1 /\ Len(written) = 1

\* --------------------------------------------------- the kernels on their own

\* Coordinate buffers a test may pass: every node of the chain displaced
\* along the axis, which stretches a bond to exactly the critical strain
\* (length 6), beyond it (7 and more), or compresses it (down to length 0).
KernelFields == { XField(a, b, c, 0) : a, b, c \in {-3, 0, 2, 3} }

\* Neighbour buffers a test may pass: the initial connectivity, one with a
\* broken bond, and one whose row 2 is in the other order.
KernelConns ==
    {initial_connectivity} \cup SuppliedConns \cup
    { << << <<2, 1>>, <<3, 1>>, <<2, 1>>, <<1, 1>> >>, <<1, 2, 1, 0>> >> }

\* A constructed ModelCL and device buffers as simulate creates them, with
\* no step run.
KernelInit ==
    /\ pc = "kernel_test"
    /\ context_arg = PyNone
    /\ found = Context(<<Device(TRUE)>>)
    /\ context = Context(<<Device(TRUE)>>)
    /\ program = Context(<<Device(TRUE)>>)
    /\ queue = Context(<<Device(TRUE)>>)
    /\ kernels = KernelNames
    /\ init_raised = "None"
    /\ in_flight = <<>>
    /\ run = 0
    /\ steps = 0 /\ first_step = 1 /\ write = 0
    /\ boundary_function = "None" /\ u_arg = None /\ connectivity = None
    /\ step = 1
    /\ u = None /\ force = None /\ damage = None /\ nlist = None /\ n_neigh = None
    /\ r0_d = coords /\ volume_d = volume /\ family_d = family
    /\ \E f \in KernelFields : r_d = CoordBuffer(f)
    /\ \E c \in KernelConns : nlist_d = c[1] /\ n_neigh_d = c[2]
    /\ damage_d = None /\ force_d = None
    /\ trace = <<>>
    /\ int_out = None /\ bnd_out = None /\ written = <<>>
    /\ thrown = "None" /\ raised = "None"
    /\ result = None

\* Mutant: the two coordinate buffers are passed in the other order.
CallBreakBondsSwappedBuffers ==
    /\ pc = "kernel_test"
    /\ Len(trace) < MaxCalls
    /\ nlist_d' = break_bonds_kernel(r0_d, r_d, nlist_d, n_neigh_d,
                                     max_neighbours, critical_strain)[1]
    /\ n_neigh_d' = break_bonds_kernel(r0_d, r_d, nlist_d, n_neigh_d,
                                       max_neighbours, critical_strain)[2]
    /\ trace' = Append(trace, Ev("break_bonds", Len(trace) + 1))
    /\ UNCHANGED <<object, in_flight, thrown>>
    /\ UNCHANGED <<pc, run, args, step, host, constbufs, r_d, damage_d, force_d,
                   history, raised, result>>

\* self._break_bonds(r_d, r0_d, nlist_d, n_neigh_d, self.max_neighbours,
\* self.critical_strain), lines 50-59.
CallBreakBonds ==
    /\ pc = "kernel_test"
    /\ Len(trace) < MaxCalls
    /\ nlist_d' = break_bonds_kernel(r_d, r0_d, nlist_d, n_neigh_d,
                                     max_neighbours, critical_strain)[1]
    /\ n_neigh_d' = break_bonds_kernel(r_d, r0_d, nlist_d, n_neigh_d,
                                       max_neighbours, critical_strain)[2]
    /\ trace' = Append(trace, Ev("break_bonds", Len(trace) + 1))
    /\ UNCHANGED <<object, in_flight, thrown>>
    /\ UNCHANGED <<pc, run, args, step, host, constbufs, r_d, damage_d, force_d,
                   history, raised, result>>

\* A new coordinate buffer between two calls (lines 167-168).
MoveNodes ==
    /\ pc = "kernel_test"
    /\ Len(trace) < MaxCalls
    /\ \E f \in KernelFields : r_d' = CoordBuffer(f)
    /\ r_d' # r_d
    /\ trace' = Append(trace, Ev("refresh", Len(trace) + 1))
    /\ UNCHANGED <<object, in_flight, thrown>>
    /\ UNCHANGED <<pc, run, args, step, host, constbufs, neighbufs, damage_d,
                   force_d, history, raised, result>>

KernelNext == CallBreakBonds \/ MoveNodes

KernelSpec == KernelInit /\ [][KernelNext]_vars

\* C13: a call of the Breaking Kernel that directly follows another call of
\* it, the coordinate buffer being the same, changes neither the neighbour
\* list nor the active counts.
C13_Idempotent ==
    [][(/\ trace # <<>> /\ Last(trace).op = "break_bonds"
        /\ Len(trace') = Len(trace) + 1 /\ Last(trace').op = "break_bonds")
       => (r_d' = r_d /\ nlist_d' = nlist_d /\ n_neigh_d' = n_neigh_d)]_vars

\* Two calls in succession, of which the first broke both bonds of row 2.
C13_Witness ==
    /\ pc = "kernel_test" /\ Len(trace) = 2
    /\ trace[1].op = "break_bonds" /\ trace[2].op = "break_bonds"
    /\ r_d = CoordBuffer(XField(-3, 0, 3, 0))
    /\ n_neigh_d = <<0, 0, 0, 0>>

\* (l - l0) / l0 > critical_strain for the bond (i, j) at coordinates r,
\* multiplied out: l * cs[2] > l0 * (cs[2] + cs[1]).
Overstretched(r, i, j) ==
    Abs(r[j][1] - r[i][1]) * critical_strain[2]
        > Abs(coords[j][1] - coords[i][1])
            * (critical_strain[2] + critical_strain[1])

C15_SnapshotFrame ==
    /\ [](pc = "done" => result = <<u, damage_d, <<nlist_d, n_neigh_d>>>>)
    /\ [][(pc = "write_copy" \/ pc = "write_mesh") =>
             UNCHANGED <<u, nlist, n_neigh, constbufs, r_d, neighbufs,
                         damage_d, force_d>>]_vars

\* A snapshot was just written in a run that moved the nodes and broke a
\* bond.
C15_Witness ==
    /\ trace # <<>> /\ Last(trace).op = "write_mesh"
    /\ Len(written) = 2
    /\ u # Zeros /\ n_neigh_d # family
    /\ Last(written).damage = damage_d

\* C16: from the moment simulate has created them, before the first step,
\* the buffers r0_d, volume_d and family_d hold self.coords, self.volume and
\* self.family, and no call of a run (kernel, copy, integrator, boundary
\* function, refresh, snapshot, final synchronisation, return) changes
\* them; the family count of a node is the same in every state.
C16_ConstantBuffers ==
    /\ [](pc # "idle" =>
            r0_d = coords /\ volume_d = volume /\ family_d = family)
    /\ [][(r0_d' # r0_d \/ volume_d' # volume_d \/ family_d' # family_d) =>
             (pc = "idle" /\ trace' = <<>> /\ step' = first_step')]_vars

\* A run of two steps with a snapshot and broken bonds has returned.
C16_Witness ==
    /\ pc = "done" /\ steps = 2 /\ written # <<>>
    /\ n_neigh # family /\ family_d = family
    /\ Count(trace, FinalEv("copy_n_neigh")) = 1

\* C19: whenever a step is about to start (the host is before the Force
\* Kernel of that step), the coordinate buffer holds self.coords + u for the
\* u the host holds: in the first step of a run the initial displacements,
\* with no call made yet; in a later step the displacements the boundary
\* function returned in the step before, which ended with its Damage Kernel
\* or its snapshot.
C19_CoordsAtStepStart ==
    pc = "bond_force" =>
        /\ \A i \in Nodes : r_d[i] = VAdd(coords[i], u[i])
        /\ step = first_step => trace = <<>> /\ u = InitialU(u_arg)
        /\ step > first_step =>
              /\ u = bnd_out[2]
              /\ Last(trace).step = step - 1
              /\ Last(trace).op = IF Snapshot(step - 1, write)
                                  THEN "write_mesh" ELSE "damage"

\* The second step is about to start after a step whose boundary function
\* changed what the integrator returned.
C19_Witness ==
    /\ pc = "bond_force" /\ step = first_step + 1
    /\ bnd_out[2] # int_out /\ u = XField(3, 0, 3, 0)
    /\ r_d[1] = <<3, 0, 0>>

\* The active bonds (i, j) whose stretch at the coordinates r is above the
\* critical strain.
OverstretchedActive(r, nl, nn) ==
    {b \in Nodes \X Nodes :
        b[2] \in Active(nl, nn, b[1]) /\ Overstretched(r, b[1], b[2])}

\* C20: when the Force Kernel of a step other than the first step of a run
\* is about to read the coordinate buffer and the neighbour buffers, no
\* active bond is stretched beyond the critical strain at those coordinates
\* (the Breaking Kernel of the step before ran on them).
C20_NoForceFromOverstretched ==
    (pc = "bond_force" /\ step > first_step) =>
        OverstretchedActive(r_d, nlist_d, n_neigh_d) = {}

\* The second step is about to start; the step before broke bond 1-2 and
\* left bond 2-3 at exactly the critical strain.
C20_Witness ==
    /\ pc = "bond_force" /\ step > first_step
    /\ r_d = [i \in Nodes |-> VAdd(coords[i], XField(-3, 0, 2, 0)[i])]
    /\ n_neigh_d = <<0, 1, 1, 0>>

\* The first step of a run is about to start with an overstretched active
\* bond.
C20_FirstStepOverstretched ==
    /\ pc = "bond_force" /\ step = first_step
    /\ OverstretchedActive(r_d, nlist_d, n_neigh_d) # {}

\* ------------------------------------------------- the queue and the device
\* The three methods _damage, _break_bonds and _bond_force in two host
\* steps each, the kernel call and queue.finish(), with the device running
\* the work items of the call one at a time in any order in between.

\* Mutant: the global work size is (self.max_neighbours,).
GlobalSizeMaxNeighbours == 1..max_neighbours

\* The global work size (self.nnodes,): one work item per node.
GlobalSize == Nodes

\* A buffer allocated without contents, cell by cell.
Cells(buf) == IF buf = None THEN [i \in Nodes |-> None] ELSE buf

\* The buffers a kernel may write.
written_bufs == <<nlist_d, n_neigh_d, damage_d, force_d>>

\* A kernel call on the queue: the work items that have not yet run and,
\* for reference, the buffers as they were when the call was made.
Command(k) == [kernel |-> k, pending |-> GlobalSize, before |-> written_bufs]

FinishPc(k) ==
    CASE k = "bond_force" -> "finish_bond_force"
      [] k = "break_bonds" -> "finish_break_bonds"
      [] k = "damage" -> "finish_damage"

\* The kernel call of self._damage, self._break_bonds or self._bond_force
\* (lines 46, 56, 67): it returns once the call is on the queue.
Dispatch(k) ==
    /\ pc = k
    /\ in_flight' = Append(in_flight, Command(k))
    /\ trace' = Append(trace, Ev(k, step))
    /\ pc' = FinishPc(k)
    /\ UNCHANGED <<object, thrown>>
    /\ UNCHANGED <<run, args, step, host, constbufs, r_d, neighbufs, damage_d,
                   force_d, history, raised, result>>

\* Work item i of kernel k, on the buffers as they are when it runs.
WorkItemEffect(k, i) ==
    /\ force_d' =
         IF k = "bond_force"
         THEN [Cells(force_d) EXCEPT ![i] =
                 ForceSum(r_d, r0_d, nlist_d[i], volume_d, bond_stiffness, i,
                          n_neigh_d[i])]
         ELSE force_d
    /\ nlist_d' =
         IF k = "break_bonds"
         THEN [nlist_d EXCEPT ![i] =
                 BreakRow(r_d, r0_d, critical_strain, i, nlist_d[i],
                          n_neigh_d[i], 1)[1]]
         ELSE nlist_d
    /\ n_neigh_d' =
         IF k = "break_bonds"
         THEN [n_neigh_d EXCEPT ![i] =
                 BreakRow(r_d, r0_d, critical_strain, i, nlist_d[i],
                          n_neigh_d[i], 1)[2]]
         ELSE n_neigh_d
    /\ damage_d' =
         IF k = "damage"
         THEN [damage_d EXCEPT ![i] = damage_kernel(n_neigh_d, family_d)[i]]
         ELSE damage_d

\* The positions on the queue of the calls with work items left.
Unfinished == {c \in 1..Len(in_flight) : in_flight[c].pending # {}}

\* The device runs one work item of the oldest call that has some left (the
\* queue is in order).
WorkItem ==
    /\ Unfinished # {}
    /\ LET c == CHOOSE x \in Unfinished : \A y \in Unfinished : x <= y
       IN \E i \in in_flight[c].pending :
            /\ WorkItemEffect(in_flight[c].kernel, i)
            /\ in_flight' = [in_flight EXCEPT ![c].pending = @ \ {i}]
    /\ UNCHANGED <<object, thrown>>
    /\ UNCHANGED <<pc, run, args, step, host, constbufs, r_d, trace, history,
                   raised, result>>

AfterKernel(k) ==
    CASE k = "bond_force" -> "copy_force"
      [] k = "break_bonds" -> "damage"
      [] k = "damage" -> AfterDamage(step, write, first_step, steps)

\* Mutant: the method returns after the kernel call, without queue.finish().
FinishWithoutWaiting(k) ==
    /\ pc = FinishPc(k)
    /\ pc' = AfterKernel(k)
    /\ step' = IF k = "damage" /\ pc' # "write_copy" THEN step + 1 ELSE step
    /\ UNCHANGED <<object, in_flight, thrown>>
    /\ UNCHANGED <<run, args, host, constbufs, r_d, neighbufs, damage_d,
                   force_d, trace, history, raised, result>>

\* queue.finish() (lines 48, 59, 71): the host waits until every call on
\* the queue has run all its work items.
Finish(k) ==
    /\ pc = FinishPc(k)
    /\ Unfinished = {}
    /\ in_flight' = <<>>
    /\ pc' = AfterKernel(k)
    /\ step' = IF k = "damage" /\ pc' # "write_copy" THEN step + 1 ELSE step
    /\ UNCHANGED <<object, thrown>>
    /\ UNCHANGED <<run, args, host, constbufs, r_d, neighbufs, damage_d,
                   force_d, trace, history, raised, result>>

DeviceNext ==
    \/ Simulate
    \/ \E k \in KernelNames : Dispatch(k)
    \/ WorkItem
    \/ \E k \in KernelNames : Finish(k)
    \/ CopyForce \/ Integrate \/ IntegratorRaises
    \/ ApplyBoundary \/ BoundaryRaises \/ RefreshCoords
    \/ WriteCopy \/ WriteMesh
    \/ SyncDamage \/ SyncNlist \/ SyncNNeigh \/ Return

DeviceSpec == Init /\ [][DeviceNext]_vars

\* C17: the queue never holds more than one kernel call; while it holds
\* one, the host is inside the queue.finish() of the method that made the
\* call, which is the last call of the run so far; and as long as that call
\* has work items left the host makes no move: no integrator, no boundary
\* function, no copy, no new coordinate buffer and no further kernel call, so
\* that no Force Kernel reads the neighbour buffers while a Breaking Kernel
\* writes them.
C17_OneDispatchInFlight ==
    /\ [](Len(in_flight) <= 1)
    /\ [](in_flight # <<>> =>
            /\ pc = FinishPc(in_flight[1].kernel)
            /\ Last(trace) = Ev(in_flight[1].kernel, step))
    /\ [](pc \notin {FinishPc(k) : k \in KernelNames} => in_flight = <<>>)
    /\ [][Unfinished # {} =>
             UNCHANGED <<pc, step, host, constbufs, r_d, trace, history,
                         raised, result>>]_vars

\* The Breaking Kernel of the second step has run some of its work items:
\* the host waits.
C17_Witness ==
    /\ Len(in_flight) = 1 /\ in_flight[1].kernel = "break_bonds"
    /\ Cardinality(in_flight[1].pending) = 2
    /\ pc = "finish_break_bonds" /\ step = first_step + 1
    /\ <<nlist_d, n_neigh_d>> # <<in_flight[1].before[1], in_flight[1].before[2]>>

\* What kernel k leaves in the buffers <<nlist_d, n_neigh_d, damage_d,
\* force_d>> when it runs on the buffers b, all work items at once.
KernelResult(k, b) ==
    CASE k = "bond_force" ->
           <<b[1], b[2], b[3],
             bond_force_kernel(r_d, r0_d, b[1], b[2], max_neighbours, volume_d,
                               bond_stiffness)>>
      [] k = "break_bonds" ->
           <<break_bonds_kernel(r_d, r0_d, b[1], b[2], max_neighbours,
                                critical_strain)[1],
             break_bonds_kernel(r_d, r0_d, b[1], b[2], max_neighbours,
                                critical_strain)[2],
             b[3], b[4]>>
      [] k = "damage" -> <<b[1], b[2], damage_kernel(b[2], family_d), b[4]>>

\* The cells of node i in the buffers b.
CellsOf(b, i) == <<b[1][i], b[2][i], b[3][i], Cells(b[4])[i]>>

\* C18: at every moment of a kernel call, whatever the order in which its
\* work items have run, the cells of a node whose work item has run are
\* those the kernel computes from the buffers as they were at the call, and
\* the cells of a node whose work item has not run are as they were at the
\* call; once all have run the buffers are the kernel's result.
C18_WorkItemsIndependent ==
    \A c \in 1..Len(in_flight) :
        \A i \in Nodes :
            CellsOf(written_bufs, i) =
                IF i \in in_flight[c].pending
                THEN CellsOf(in_flight[c].before, i)
                ELSE CellsOf(KernelResult(in_flight[c].kernel,
                                          in_flight[c].before), i)

\* The work items of nodes 3 and 2 of a Breaking Kernel that breaks bond 1-2
\* have run, those of nodes 1 and 4 have not.
C18_Witness ==
    /\ Len(in_flight) = 1 /\ in_flight[1].kernel = "break_bonds"
    /\ in_flight[1].pending = {1, 4}
    /\ in_flight[1].before[2] = <<1, 2, 1, 0>>
    /\ n_neigh_d = <<1, 1, 1, 0>>

====
